---- MODULE Spec2Model ----
(***************************************************************************)
(* Model of build.py, the pandoc static-site build script.                 *)
(*                                                                         *)
(* Text is a sequence of lexemes.  The one-character lexemes are "-", "x", *)
(* "a", "b", " " and "\n"; every other lexeme ("index:", "{{title}}",      *)
(* "notes", ...) stands for a run of characters that holds neither "-" nor *)
(* whitespace and is never cut, so str.split, str.strip and str.join act   *)
(* on lexeme sequences exactly as they act on the characters.              *)
(***************************************************************************)
EXTENDS Integers, Sequences, FiniteSets, TLC

VARIABLES
    d_text,     \* PandocMarkdown world: text of the file load_file reads
    d_pmd,      \* the PandocMarkdown object
    d_exc,      \* exception raised by the last load_file ("none" if none)
    d_prev,     \* the document (frontmatter, content) given to the last dumps()
    d_stage,    \* "text" | "made" | "loaded" | "dumped" | "reloaded"
    CFG,        \* the configuration (read-only during a build)
    content,    \* the content directory: its entries in enumeration order
    public,     \* the public directory: a set of entries
    pc,         \* gen_all_pages: "idle" | "running" | "done" | "failed"
    content_files,  \* gen_all_pages: the list of '.md' paths it iterates over
    next,       \* gen_all_pages: position in content_files of the next path
    error,      \* the exception that ended the build ("none" if none)
    outcomes,   \* the exceptions that ended the earlier builds, oldest first
    done_docs,  \* the paths gen_page returned normally for, in this build
    calls,      \* number of gen_page calls made so far
    last,       \* what the latest gen_page call did
    initial     \* the content directory before the first build

d_vars == <<d_text, d_pmd, d_exc, d_prev, d_stage>>
b_vars == <<CFG, content, public, pc, content_files, next, error, outcomes,
            done_docs, calls, last, initial>>
vars == <<d_vars, b_vars>>

----------------------------------------------------------------------------
(* Bounds of the model *)

MaxBody == 4       \* longest enumerated body / free text, in lexemes
MaxPrefix == 1     \* longest enumerated text in front of the first marker
MaxFiles == 2      \* most entries of the content directory before the first build
MaxBuilds == 2     \* most runs of gen_all_pages over the same directory

----------------------------------------------------------------------------
(* str helpers *)

WS == {" ", "\n"}

Min(S) == CHOOSE m \in S : \A n \in S : m <= n
Max(S) == CHOOSE m \in S : \A n \in S : m >= n

RECURSIVE lstrip(_)
lstrip(s) == IF s # <<>> /\ Head(s) \in WS THEN lstrip(Tail(s)) ELSE s

RECURSIVE rstrip(_)
rstrip(s) ==
    IF s # <<>> /\ s[Len(s)] \in WS THEN rstrip(SubSeq(s, 1, Len(s) - 1)) ELSE s

strip(s) == lstrip(rstrip(s))

\* str.find: index of the first occurrence of sep in s, 0 if there is none
find(s, sep) ==
    LET hits == {i \in 1..(Len(s) - Len(sep) + 1) : SubSeq(s, i, i + Len(sep) - 1) = sep}
    IN  IF hits = {} THEN 0 ELSE Min(hits)

\* str.split(sep): non-overlapping occurrences, scanned left to right
RECURSIVE split(_, _)
split(s, sep) ==
    LET i == find(s, sep)
    IN  IF i = 0 THEN <<s>>
        ELSE <<SubSeq(s, 1, i - 1)>> \o split(SubSeq(s, i + Len(sep), Len(s)), sep)

\* sep.join(parts)
RECURSIVE str_join(_, _)
str_join(sep, parts) ==
    IF parts = <<>> THEN <<>>
    ELSE IF Len(parts) = 1 THEN parts[1]
    ELSE parts[1] \o sep \o str_join(sep, Tail(parts))

removesuffix(s, suf) ==
    IF Len(s) >= Len(suf) /\ SubSeq(s, Len(s) - Len(suf) + 1, Len(s)) = suf
    THEN SubSeq(s, 1, Len(s) - Len(suf))
    ELSE s

startswith(s, p) == Len(p) <= Len(s) /\ SubSeq(s, 1, Len(p)) = p

----------------------------------------------------------------------------
(* YAML values, yaml.safe_load and yaml.dump on the metadata block *)

\* a value of a mapping: t is "bool", "str" or "null", v its plain-scalar text
YTrue == [t |-> "bool", v |-> <<"true">>]
YFalse == [t |-> "bool", v |-> <<"false">>]
YNull == [t |-> "null", v |-> <<>>]
YStr(s) == [t |-> "str", v |-> s]

\* Python truthiness of a value
truthy(val) == IF val.t = "bool" THEN val = YTrue ELSE val.t = "str" /\ val.v # <<>>

\* front matter as the loader returns it: a dict (ordered items), None, or
\* another YAML value (a plain scalar)
EmptyDict == [kind |-> "map", items |-> <<>>, val |-> <<>>]
NoneFm == [kind |-> "none", items |-> <<>>, val |-> <<>>]
ScalarFm(s) == [kind |-> "scalar", items |-> <<>>, val |-> s]
Dict(its) == [kind |-> "map", items |-> its, val |-> <<>>]

Keys == {"index", "title", "template_file", "__filename__"}
KeyLexemes == {"index:", "title:", "template_file:", "__filename__:"}
KeyLex(k) == CASE k = "index" -> "index:"
               [] k = "title" -> "title:"
               [] k = "template_file" -> "template_file:"
               [] OTHER -> "__filename__:"
KeyName(lex) == CHOOSE k \in Keys : KeyLex(k) = lex

\* k in fm  /  fm[k]   (for a dict)
has_key(fm, k) == \E i \in 1..Len(fm.items) : fm.items[i].k = k
get(fm, k) == fm.items[CHOOSE i \in 1..Len(fm.items) : fm.items[i].k = k].v

\* fm[k] = v: replaces the value in place or appends the new key
set_item(fm, k, v) ==
    IF has_key(fm, k)
    THEN Dict([i \in 1..Len(fm.items) |->
                 IF fm.items[i].k = k THEN [k |-> k, v |-> v] ELSE fm.items[i]])
    ELSE Dict(Append(fm.items, [k |-> k, v |-> v]))

\* resolution of a plain scalar
yaml_scalar(s) ==
    IF s = <<"true">> THEN YTrue
    ELSE IF s = <<"false">> THEN YFalse
    ELSE IF s = <<>> \/ s = <<"null">> THEN YNull
    ELSE YStr(s)

\* the non-blank lines of a YAML text, stripped, document-end markers dropped
yaml_lines(text) ==
    LET raw == split(text, <<"\n">>)
        stripped == [i \in 1..Len(raw) |-> strip(raw[i])]
    IN  SelectSeq(stripped, LAMBDA l : l # <<>> /\ l # <<"...">>)

is_entry(l) ==
    /\ Head(l) \in KeyLexemes
    /\ Len(l) = 1 \/ l[2] = " "
    /\ \A j \in 2..Len(l) : l[j] \notin KeyLexemes

\* yaml.safe_load: [exc, fm]
safe_load(text) ==
    LET ls == yaml_lines(text)
        n == Len(ls)
        key(i) == KeyName(Head(ls[i]))
        first(i) == \A j \in 1..(i - 1) : key(j) # key(i)
        final(i) == CHOOSE j \in i..n : key(j) = key(i) /\ \A h \in (j + 1)..n : key(h) # key(i)
        keep == SelectSeq([i \in 1..n |-> i], first)
    IN  IF ls = <<>> \/ ls = << <<"null">> >> THEN [exc |-> "none", fm |-> NoneFm]
        ELSE IF ls = << <<"{}">> >> THEN [exc |-> "none", fm |-> EmptyDict]
        ELSE IF \A i \in 1..n : is_entry(ls[i])
        THEN [exc |-> "none",
              fm |-> Dict([h \in 1..Len(keep) |->
                             [k |-> key(keep[h]),
                              v |-> yaml_scalar(strip(Tail(ls[final(keep[h])])))]])]
        ELSE IF \A i \in 1..n : \A j \in 1..Len(ls[i]) : ls[i][j] \notin KeyLexemes
        THEN [exc |-> "none", fm |-> ScalarFm(str_join(<<" ">>, ls))]
        ELSE [exc |-> "YAMLError", fm |-> NoneFm]

yaml_value(val) == IF val.t = "null" THEN <<"null">> ELSE val.v

RECURSIVE yaml_items(_)
yaml_items(its) ==
    IF its = <<>> THEN <<>>
    ELSE <<KeyLex(Head(its).k), " ">> \o yaml_value(Head(its).v) \o <<"\n">>
         \o yaml_items(Tail(its))

\* yaml.dump(x, default_flow_style = None, sort_keys = False)
yaml_dump(fm) ==
    IF fm.kind = "none" THEN <<"null", "\n", "...", "\n">>
    ELSE IF fm.kind = "scalar" THEN fm.val \o <<"\n", "...", "\n">>
    ELSE IF fm.items = <<>> THEN <<"{}", "\n">>
    ELSE yaml_items(fm.items)

----------------------------------------------------------------------------
(* class PandocMarkdown *)

delim == <<"-", "-", "-">>

ErrNoFrontMatter == "ValueError: file does not start with yaml front matter"
ErrMissingSections == "ValueError: missing sections in file, check delims"

\* PandocMarkdown.__init__
NewPandocMarkdown == [initialized |-> FALSE, frontmatter |-> EmptyDict, content |-> <<>>]

\* check_sections with the two checks in the other order
check_sections_count_first(sections) ==
    IF Len(sections) < 3 THEN ErrMissingSections
    ELSE IF strip(sections[1]) # <<>> THEN ErrNoFrontMatter
    ELSE "none"

\* the two checks of load_file on the split text: the exception they raise
check_sections(sections) ==
    IF strip(sections[1]) # <<>> THEN ErrNoFrontMatter
    ELSE IF Len(sections) < 3 THEN ErrMissingSections
    ELSE "none"

\* join_body keeping the section after the second marker alone
join_body_one_section(sections) == sections[3]

\* the body load_file keeps
join_body(sections) == str_join(delim, SubSeq(sections, 3, Len(sections)))

\* PandocMarkdown.load_file on the text read from the file: [exc, pmd]
load_file(self, text) ==
    LET sections == split(text, delim)
        bad == check_sections(sections)
        y == safe_load(sections[2])
    IN  IF bad # "none" THEN [exc |-> bad, pmd |-> self]
        ELSE IF y.exc # "none" THEN [exc |-> y.exc, pmd |-> self]
        ELSE [exc |-> "none",
              pmd |-> [initialized |-> TRUE,
                       frontmatter |-> y.fm,
                       content |-> join_body(sections)]]

\* the body as dumps() emits it
dump_body(body) == lstrip(body)

\* PandocMarkdown.dumps (frontmatter and content are never None objects here:
\* a None front matter is a value of the loader, tested with `is None`)
dumps(self) ==
    IF self.frontmatter.kind = "none" THEN [exc |-> "Exception", text |-> <<>>]
    ELSE [exc |-> "none",
          text |-> str_join(<<"\n">>, <<delim,
                                        strip(yaml_dump(self.frontmatter)),
                                        delim,
                                        dump_body(self.content)>>)]

----------------------------------------------------------------------------
(* chevron.render, for templates made of plain lexemes, the variable tags  *)
(* of VarTags and the section tags {{#children}} ... {{/children}}         *)

Open == "{{#children}}"
Close == "{{/children}}"
VarTags == {"{{title}}", "{{__filename__}}", "{{index}}"}
TagKey(tag) == CASE tag = "{{title}}" -> "title"
                 [] tag = "{{__filename__}}" -> "__filename__"
                 [] OTHER -> "index"

\* the data handed to chevron: the keys of the top-level mapping other than
\* 'children' (top), and the scopes a {{#children}} section is rendered in
\* (one per element of a list, one for a truthy non-list, none otherwise)
Data(top, children) == [top |-> top, children |-> children]

section_scopes(fm) ==
    IF fm.kind = "none" \/ (fm.kind = "map" /\ fm.items = <<>>) \/
       (fm.kind = "scalar" /\ fm.val = <<>>)
    THEN <<>> ELSE <<fm>>

\* str() of a value
py_str(val) ==
    IF val.t = "bool" THEN (IF val = YTrue THEN <<"True">> ELSE <<"False">>) ELSE val.v

\* a variable tag: the first scope, innermost first, that holds the key
RECURSIVE lookup(_, _)
lookup(scopes, key) ==
    IF scopes = <<>> THEN <<>>
    ELSE IF Head(scopes).kind = "map" /\ has_key(Head(scopes), key)
    THEN py_str(get(Head(scopes), key))
    ELSE lookup(Tail(scopes), key)

\* position of the tag closing the section opened just before position i
RECURSIVE close_at(_, _, _)
close_at(tpl, i, depth) ==
    IF i > Len(tpl) THEN 0
    ELSE IF tpl[i] = Open THEN close_at(tpl, i + 1, depth + 1)
    ELSE IF tpl[i] = Close
    THEN (IF depth = 0 THEN i ELSE close_at(tpl, i + 1, depth - 1))
    ELSE close_at(tpl, i + 1, depth)

RECURSIVE balanced(_, _)
balanced(tpl, depth) ==
    IF tpl = <<>> THEN depth = 0
    ELSE IF Head(tpl) = Open THEN balanced(Tail(tpl), depth + 1)
    ELSE IF Head(tpl) = Close THEN depth > 0 /\ balanced(Tail(tpl), depth - 1)
    ELSE balanced(Tail(tpl), depth)

RECURSIVE render_in(_, _, _)
RECURSIVE render_each(_, _, _, _)

render_in(tpl, scopes, children) ==
    IF tpl = <<>> THEN <<>>
    ELSE IF Head(tpl) = Open
    THEN LET c == close_at(tpl, 2, 0)
         IN  render_each(SubSeq(tpl, 2, c - 1), children, scopes, children)
             \o render_in(SubSeq(tpl, c + 1, Len(tpl)), scopes, children)
    ELSE IF Head(tpl) \in VarTags
    THEN lookup(scopes, TagKey(Head(tpl))) \o render_in(Tail(tpl), scopes, children)
    ELSE <<Head(tpl)>> \o render_in(Tail(tpl), scopes, children)

render_each(inner, todo, scopes, children) ==
    IF todo = <<>> THEN <<>>
    ELSE render_in(inner, <<Head(todo)>> \o scopes, children)
         \o render_each(inner, Tail(todo), scopes, children)

\* chevron.render(template, data): [exc, text]
render(tpl, data) ==
    IF ~balanced(tpl, 0) THEN [exc |-> "ChevronError", text |-> <<>>]
    ELSE [exc |-> "none", text |-> render_in(tpl, <<data.top>>, data.children)]

----------------------------------------------------------------------------
(* Paths and directories.  A file name is a sequence of lexemes, "." among *)
(* them; a directory is the sequence of its entries in the order the       *)
(* filesystem enumerates them.                                             *)

Entry(name, kind, text) == [name |-> name, kind |-> kind, text |-> text]
MdSuffix == <<".", "md">>

names_of(fs) == {fs[i].name : i \in 1..Len(fs)}
index_of(fs, name) ==
    IF name \in names_of(fs) THEN CHOOSE i \in 1..Len(fs) : fs[i].name = name ELSE 0

content_path(name) == <<"content/">> \o name
public_path(name) == <<"public/">> \o name

\* Path.stem: the name without its last suffix
stem(name) ==
    LET dots == {i \in 2..(Len(name) - 1) : name[i] = "."}
    IN  IF dots = {} THEN name ELSE SubSeq(name, 1, Max(dots) - 1)

\* a glob that leaves the exact name out, for comparison with glob_prefix
glob_prefix_strict(fs, prefix) ==
    SelectSeq(fs, LAMBDA e : startswith(e.name, prefix) /\ e.name # prefix \o MdSuffix)

glob_prefix(fs, prefix) == SelectSeq(fs, LAMBDA e : startswith(e.name, prefix))

\* CFG['content'].glob('**/*.md')
glob_md(fs) ==
    LET hits == SelectSeq(fs, LAMBDA e : Len(e.name) > 2 /\
                                SubSeq(e.name, Len(e.name) - 1, Len(e.name)) = MdSuffix)
    IN  [i \in 1..Len(hits) |-> hits[i].name]

\* open(path, 'w') and write: [exc, fs]; a new file appears at position at
write_file(fs, name, text, at) ==
    LET i == index_of(fs, name)
    IN  IF i = 0
        THEN [exc |-> "none",
              fs |-> SubSeq(fs, 1, at - 1) \o <<Entry(name, "file", text)>>
                     \o SubSeq(fs, at, Len(fs))]
        ELSE IF fs[i].kind = "dir" THEN [exc |-> "IsADirectoryError", fs |-> fs]
        ELSE [exc |-> "none", fs |-> [fs EXCEPT ![i].text = text]]

\* PandocMarkdown.create_from_file: [exc, pmd]
create_from_file(fs, name) ==
    LET i == index_of(fs, name)
    IN  IF i = 0 THEN [exc |-> "FileNotFoundError", pmd |-> NewPandocMarkdown]
        ELSE IF fs[i].kind = "dir"
        THEN [exc |-> "IsADirectoryError", pmd |-> NewPandocMarkdown]
        ELSE load_file(NewPandocMarkdown, fs[i].text)

----------------------------------------------------------------------------
(* Configuration and resources *)

\* CFG['generated_index_suffix'] of the example configuration
generated_index_suffix == <<".", "_index", ".", "md">>

\* the template files there are: name -> text
TemplateNames == {<<"t1">>}
template_text(name) == <<Open, "{{title}}", "\n", Close>>

----------------------------------------------------------------------------
(* gen_cmd, get_plain_path *)

NonePath == [some |-> FALSE, path |-> <<>>]
Some(path) == [some |-> TRUE, path |-> path]

\* the local name out_path of gen_cmd: line 118 annotates it and assigns
\* nothing, so it is unbound when line 129 reads it
out_path_local(plain_path_out) == [bound |-> FALSE, path |-> <<>>]

NoCmd == [exc |-> "none", o |-> <<>>, input |-> <<>>, out_path |-> <<>>]

\* gen_cmd: [exc, o, input, out_path]; o is the '-o' argument, input the
\* source file argument
gen_cmd(plain_path, plain_path_out) ==
    LET ppo == IF ~plain_path_out.some THEN plain_path ELSE plain_path_out.path
        out_path == out_path_local(ppo)
    IN  IF ~out_path.bound
        THEN [exc |-> "UnboundLocalError", o |-> <<>>, input |-> <<>>, out_path |-> <<>>]
        ELSE [exc |-> "none",
              o |-> out_path.path,
              input |-> content_path(plain_path \o MdSuffix),
              out_path |-> out_path.path]

\* get_plain_path, relative to the content root
get_plain_path(fname) == removesuffix(fname, MdSuffix)

----------------------------------------------------------------------------
(* add_index_page *)

\* the loop over the downstream files: [exc, children, bad]; bad is the file
\* the exception was raised for
RECURSIVE read_downstream(_, _)
read_downstream(entries, acc) ==
    IF entries = <<>> THEN [exc |-> "none", children |-> acc, bad |-> <<>>]
    ELSE LET e == Head(entries)
             ld == create_from_file(<<e>>, e.name)
         IN  IF ld.exc # "none"
             THEN [exc |-> ld.exc, children |-> acc, bad |-> e.name]
             ELSE IF ld.pmd.frontmatter.kind # "map"
             THEN [exc |-> "TypeError", children |-> acc, bad |-> e.name]
             ELSE read_downstream(
                      Tail(entries),
                      Append(acc, set_item(ld.pmd.frontmatter, "__filename__",
                                           YStr(content_path(e.name)))))

\* the template_file step: [exc, content]
append_template(doc) ==
    IF ~has_key(doc.frontmatter, "template_file")
    THEN [exc |-> "none", content |-> doc.content]
    ELSE LET tf == get(doc.frontmatter, "template_file")
         IN  IF tf.t # "str" THEN [exc |-> "TypeError", content |-> doc.content]
             ELSE IF tf.v \notin TemplateNames
             THEN [exc |-> "FileNotFoundError", content |-> doc.content]
             ELSE [exc |-> "none", content |-> doc.content \o template_text(tf.v)]

\* written_index writing whatever was collected when the loop failed
written_index_partial(exc, fs, path_new, text, at) == write_file(fs, path_new, text, at)

\* the write of lines 176-177, which an exception raised before it skips
written_index(exc, fs, path_new, text, at) ==
    IF exc # "none" THEN [exc |-> exc, fs |-> fs] ELSE write_file(fs, path_new, text, at)

NoIndex == [exc |-> "none", fs |-> <<>>, path_new |-> <<>>, scanned |-> FALSE,
            rendered |-> FALSE, children |-> <<>>, bad |-> <<>>]

\* line 154
index_path(path_original) == removesuffix(path_original, MdSuffix) \o generated_index_suffix

\* add_index_page is written as its steps, each handing its result to the
\* next: [exc, fs, path_new, scanned, rendered, children, bad]

\* lines 179: the result, out being what the write of lines 176-177 gave
add_index_result(path_new, scan, out) ==
    [exc |-> out.exc, fs |-> out.fs, path_new |-> path_new, scanned |-> TRUE,
     rendered |-> scan.exc = "none", children |-> scan.children, bad |-> scan.bad]

\* lines 175-177, new_content being the rendering of line 172
add_index_write(path_original, fs, at, doc, scan, new_content) ==
    add_index_result(
        index_path(path_original), scan,
        written_index(IF scan.exc # "none" THEN scan.exc ELSE new_content.exc,
                      fs, index_path(path_original),
                      dumps([doc EXCEPT !.content = new_content.text]).text, at))

\* line 172, scan being the result of the loop of lines 165-169
add_index_render(path_original, fs, at, doc, template, scan) ==
    add_index_write(path_original, fs, at, doc, scan,
                    render(template, Data(EmptyDict, scan.children)))

\* lines 165-169, tpl being the result of lines 160-162
add_index_scan(path_original, fs, at, doc, tpl) ==
    IF tpl.exc # "none"
    THEN [NoIndex EXCEPT !.exc = tpl.exc, !.fs = fs, !.path_new = index_path(path_original)]
    ELSE add_index_render(path_original, fs, at, doc, tpl.content,
                          read_downstream(glob_prefix(fs, stem(path_original)), <<>>))

\* lines 160-162, ld being the result of line 157
add_index_loaded(path_original, fs, at, ld) ==
    IF ld.exc # "none"
    THEN [NoIndex EXCEPT !.exc = ld.exc, !.fs = fs, !.path_new = index_path(path_original)]
    ELSE IF ld.pmd.frontmatter.kind # "map"
    THEN [NoIndex EXCEPT !.exc = "TypeError", !.fs = fs,
                         !.path_new = index_path(path_original)]
    ELSE add_index_scan(path_original, fs, at, ld.pmd, append_template(ld.pmd))

\* add_index_page(path_original); at is where a new file appears in the
\* directory
add_index_page(path_original, fs, at) ==
    add_index_loaded(path_original, fs, at, create_from_file(fs, path_original))

----------------------------------------------------------------------------
(* gen_page *)

\* the external converter: its HTML for a source text keeps the body,
\* template tags included
pandoc_html(text) ==
    <<"<html>">> \o strip(join_body(split(text, delim))) \o <<"</html>">>

\* the data of the re-render of line 213
rerender_data(frontmatter) == Data(EmptyDict, section_scopes(frontmatter))

put(dir, e) == {f \in dir : f.name # e.name} \cup {e}

\* what a gen_page call did
NoObs == [md_path |-> <<>>, exc |-> "none", exc_text |-> <<>>, parsed |-> FALSE,
          frontmatter |-> NoneFm, indexed |-> FALSE, idx |-> NoIndex,
          cmd_called |-> FALSE, plain_path |-> <<>>, plain_path_out |-> NonePath,
          cmd |-> NoCmd, ran_pandoc |-> FALSE, rerendered |-> FALSE,
          data |-> Data(EmptyDict, <<>>)]

\* is the document flagged as an index: [exc, flag]   (line 198)
is_index(frontmatter) ==
    IF frontmatter.kind = "none" THEN [exc |-> "TypeError", flag |-> FALSE]
    ELSE IF frontmatter.kind = "scalar" THEN [exc |-> "none", flag |-> FALSE]
    ELSE [exc |-> "none",
          flag |-> has_key(frontmatter, "index") /\ truthy(get(frontmatter, "index"))]

\* gen_page is written as its steps, each handing its result to the next:
\* [exc, fs, pub, obs]. env holds what the environment decides: where a new
\* file appears in the directory (at), the converter's exit code (rc) and its
\* stderr text (stderr)

raise_from_page(exc, fs, pub, obs) ==
    [exc |-> exc, fs |-> fs, pub |-> pub, obs |-> [obs EXCEPT !.exc = exc]]

\* lines 214-215, again being the rendering of line 213
gen_page_rewrite(fs, pub, cmd, again, obs) ==
    IF again.exc # "none" THEN raise_from_page(again.exc, fs, pub, obs)
    ELSE [exc |-> "none", fs |-> fs,
          pub |-> put(pub, Entry(cmd.o, "file", again.text)), obs |-> obs]

\* lines 210-213, html being the file the converter wrote
gen_page_rerender(fs, pub, cfg, doc, cmd, html, obs) ==
    IF ~cfg.mustache_rerender
    THEN [exc |-> "none", fs |-> fs, pub |-> put(pub, html), obs |-> obs]
    ELSE gen_page_rewrite(fs, put(pub, html), cmd,
                          render(html.text, rerender_data(doc.frontmatter)),
                          [obs EXCEPT !.rerendered = TRUE,
                                      !.data = rerender_data(doc.frontmatter)])

\* lines 205-207, src being the position of the command's source file
gen_page_run(fs, pub, cfg, env, doc, cmd, src, obs) ==
    IF env.rc # 0 \/ src = 0
    THEN [exc |-> "RuntimeError", fs |-> fs, pub |-> pub,
          obs |-> [obs EXCEPT !.exc = "RuntimeError", !.exc_text = env.stderr]]
    ELSE gen_page_rerender(fs, pub, cfg, doc, cmd,
                           Entry(cmd.o, "file", pandoc_html(fs[src].text)), obs)

\* line 204 on, cmd being what gen_cmd gave
gen_page_cmd(fs, pub, cfg, env, doc, cmd, obs) ==
    IF cmd.exc # "none" THEN raise_from_page(cmd.exc, fs, pub, [obs EXCEPT !.cmd = cmd])
    ELSE gen_page_run(fs, pub, cfg, env, doc, cmd,
                      index_of(fs, SubSeq(cmd.input, 2, Len(cmd.input))),
                      [obs EXCEPT !.cmd = cmd, !.ran_pandoc = TRUE])

\* lines 200-204, idx being what add_index_page gave (NoIndex if not called)
gen_page_indexed(md_path, pub, cfg, env, doc, plain_path_out, idx, obs) ==
    IF idx.exc # "none" THEN raise_from_page(idx.exc, idx.fs, pub, [obs EXCEPT !.idx = idx])
    ELSE gen_page_cmd(idx.fs, pub, cfg, env, doc,
                      gen_cmd(get_plain_path(md_path), plain_path_out),
                      [obs EXCEPT !.idx = idx, !.cmd_called = TRUE,
                                  !.plain_path = get_plain_path(md_path),
                                  !.plain_path_out = plain_path_out])

\* lines 197-200, flag being the test of line 198
gen_page_flagged(md_path, fs, pub, cfg, env, doc, flag, obs) ==
    IF flag.exc # "none" THEN raise_from_page(flag.exc, fs, pub, obs)
    ELSE IF flag.flag
    THEN gen_page_indexed(md_path, pub, cfg, env, doc,
                          Some(get_plain_path(index_path(md_path))),
                          add_index_page(md_path, fs, env.at),
                          [obs EXCEPT !.indexed = TRUE])
    ELSE gen_page_indexed(md_path, pub, cfg, env, doc, NonePath,
                          [NoIndex EXCEPT !.fs = fs], obs)

\* lines 192-198, ld being the result of line 192
gen_page_loaded(md_path, fs, pub, cfg, env, ld) ==
    IF ld.exc # "none"
    THEN raise_from_page(ld.exc, fs, pub, [NoObs EXCEPT !.md_path = md_path])
    ELSE gen_page_flagged(md_path, fs, pub, cfg, env, ld.pmd,
                          IF cfg.make_index_files THEN is_index(ld.pmd.frontmatter)
                          ELSE [exc |-> "none", flag |-> FALSE],
                          [NoObs EXCEPT !.md_path = md_path, !.parsed = TRUE,
                                        !.frontmatter = ld.pmd.frontmatter])

\* gen_page(md_path)
gen_page(md_path, fs, pub, cfg, env) ==
    IF index_of(fs, md_path) = 0 \/ fs[index_of(fs, md_path)].kind # "file"
    THEN raise_from_page("FileNotFoundError", fs, pub, [NoObs EXCEPT !.md_path = md_path])
    ELSE gen_page_loaded(md_path, fs, pub, cfg, env, create_from_file(fs, md_path))

----------------------------------------------------------------------------
(* gen_all_pages *)

\* the directories of lines 219-224
new_public_dirs(fs, pub) ==
    {Entry(public_path(fs[i].name), "dir", <<>>) :
        i \in {j \in 1..Len(fs) : fs[j].kind = "dir" /\
                 public_path(fs[j].name) \notin {f.name : f \in pub}}}

\* the loop of lines 229-230 going on after an exception of gen_page
after_page_continue(exc, pos, n) == IF pos = n THEN "done" ELSE "running"

\* the loop of lines 229-230 after gen_page of the path at position pos of n:
\* an exception of gen_page leaves the loop and ends the build
after_page(exc, pos, n) ==
    IF exc # "none" THEN "failed" ELSE IF pos = n THEN "done" ELSE "running"

----------------------------------------------------------------------------
(* Inputs of the build specification *)

doc_text(items, body) ==
    delim \o <<"\n">> \o yaml_items(items) \o delim \o <<"\n">> \o body

IndexItems == << [k |-> "index", v |-> YTrue], [k |-> "title", v |-> YStr(<<"a">>)] >>

IndexText == doc_text(IndexItems, <<Open, "{{title}}", " ", "{{__filename__}}", "\n", Close>>)
OneMarkerText == delim \o <<"\n", "title:", " ", "b", "\n">>

SampleTexts == {
    \* an index page whose body lists its children
    IndexText,
    \* an index page that takes its list from a template file
    doc_text(Append(IndexItems, [k |-> "template_file", v |-> YStr(<<"t1">>)]), <<>>),
    \* a plain page
    doc_text(<< [k |-> "title", v |-> YStr(<<"b">>)] >>, <<"x", " ", "{{title}}", "\n">>),
    \* text in front of the first marker
    <<"x", "\n">> \o doc_text(<< [k |-> "title", v |-> YStr(<<"b">>)] >>, <<"x">>),
    \* one marker only
    OneMarkerText,
    \* an empty metadata block
    delim \o <<"\n">> \o delim \o <<"\n", "x">> }

MdNames == { <<"notes", ".", "md">>, <<"notes", ".", "1", ".", "md">> }
\* a file an earlier run of add_index_page left behind
StaleNames == { <<"notes", ".", "_index", ".", "md">> }
DirNames == { <<"notes">> }

EntryChoices ==
    {Entry(n, "file", t) : n \in MdNames, t \in SampleTexts}
    \cup {Entry(n, "file", t) : n \in StaleNames, t \in {IndexText, OneMarkerText}}
    \cup {Entry(n, "dir", <<>>) : n \in MdNames \cup StaleNames \cup DirNames}

InitialDirs ==
    {fs \in UNION {[1..k -> EntryChoices] : k \in 0..MaxFiles} :
        \A i, j \in 1..Len(fs) : i # j => fs[i].name # fs[j].name}

NoDoc == [frontmatter |-> NoneFm, content |-> <<>>]

\* the example configuration of lines 82-102 with the content root made a
\* Path, the same with a flag off, and the same as yaml.full_load gives it
ExampleCFG == [make_index_files |-> TRUE, mustache_rerender |-> TRUE, content_is_path |-> TRUE]
Configs == { ExampleCFG,
             [ExampleCFG EXCEPT !.make_index_files = FALSE],
             [ExampleCFG EXCEPT !.mustache_rerender = FALSE],
             [ExampleCFG EXCEPT !.content_is_path = FALSE] }

\* what the converter may do: exit 0, or exit 1 with a text on stderr
ConverterRuns == { [rc |-> 0, stderr |-> <<>>],
                   [rc |-> 1, stderr |-> <<"e1">>],
                   [rc |-> 1, stderr |-> <<"e2">>] }

DocIdle ==
    /\ d_text = <<>>
    /\ d_pmd = NewPandocMarkdown
    /\ d_exc = "none"
    /\ d_prev = NoDoc
    /\ d_stage = "idle"

BuildIdle ==
    /\ CFG = ExampleCFG
    /\ content = <<>>
    /\ public = {}
    /\ pc = "idle"
    /\ content_files = <<>>
    /\ next = 1
    /\ error = "none"
    /\ outcomes = <<>>
    /\ done_docs = <<>>
    /\ calls = 0
    /\ last = NoObs
    /\ initial = <<>>

----------------------------------------------------------------------------
(* Specification of the build: gen_all_pages, run up to MaxBuilds times    *)

Init ==
    /\ DocIdle
    /\ CFG \in Configs
    /\ content \in InitialDirs
    /\ initial = content
    /\ public = {}
    /\ pc = "idle"
    /\ content_files = <<>>
    /\ next = 1
    /\ error = "none"
    /\ outcomes = <<>>
    /\ done_docs = <<>>
    /\ calls = 0
    /\ last = NoObs

\* gen_all_pages up to its loop: the directories, then the list of pages.
\* A content root that is a str (as yaml.full_load gives it) has no glob.
StartBuild ==
    /\ pc # "running"
    /\ Len(outcomes) < MaxBuilds
    /\ done_docs' = <<>>
    /\ next' = 1
    /\ IF ~CFG.content_is_path
       THEN /\ pc' = "failed"
            /\ error' = "AttributeError"
            /\ UNCHANGED <<public, content_files>>
       ELSE /\ public' = public \cup new_public_dirs(content, public)
            /\ content_files' = glob_md(content)
            /\ pc' = IF glob_md(content) = <<>> THEN "done" ELSE "running"
            /\ error' = "none"
    /\ outcomes' = IF pc' = "running" THEN outcomes ELSE Append(outcomes, error')
    /\ UNCHANGED <<CFG, content, calls, last, initial, d_vars>>

\* the state after gen_page(content_files[next]) gave r
AfterPage(r) ==
    /\ content' = r.fs
    /\ public' = r.pub
    /\ last' = r.obs
    /\ pc' = after_page(r.exc, next, Len(content_files))
    /\ error' = IF pc' = "failed" THEN r.exc ELSE "none"
    /\ done_docs' = IF r.exc = "none" THEN Append(done_docs, content_files[next])
                    ELSE done_docs
    /\ next' = IF pc' = "failed" THEN next ELSE next + 1
    /\ outcomes' = IF pc' = "running" THEN outcomes ELSE Append(outcomes, error')
    /\ calls' = calls + 1
    /\ UNCHANGED <<CFG, content_files, initial, d_vars>>

\* one turn of the loop of gen_all_pages: gen_page(md_path)
GenPage ==
    /\ pc = "running"
    /\ \E at \in 1..(Len(content) + 1), run \in ConverterRuns :
         AfterPage(gen_page(content_files[next], content, public, CFG,
                            [at |-> at, rc |-> run.rc, stderr |-> run.stderr]))

Next == StartBuild \/ GenPage

Spec == Init /\ [][Next]_vars

----------------------------------------------------------------------------
(* Inputs of the PandocMarkdown specification *)

Alphabet == {"\n", "x", "-"}
Strs(n) == UNION {[1..k -> Alphabet] : k \in 0..n}
Bodies == Strs(MaxBody)
Prefixes == Strs(MaxPrefix)

Metas == {
    Dict(<< [k |-> "title", v |-> YStr(<<"a">>)] >>),
    Dict(<< [k |-> "index", v |-> YTrue], [k |-> "title", v |-> YStr(<<"a">>)] >>),
    Dict(<< [k |-> "title", v |-> YStr(<<"a", "-", "-", "-", "b">>)] >>),
    Dict(<< [k |-> "title", v |-> YStr(<<"b">>)], [k |-> "index", v |-> YFalse],
            [k |-> "template_file", v |-> YStr(<<"t1">>)] >>),
    EmptyDict }

YamlTexts == {<<"\n">> \o yaml_dump(m) : m \in Metas} \cup {<<"\n">>, <<"\n", "x", "\n">>}

InputTexts ==
    Bodies
    \cup {p \o delim \o b : p \in Prefixes, b \in Bodies}
    \cup {p \o delim \o y \o delim \o b : p \in Prefixes, y \in YamlTexts, b \in Bodies}

----------------------------------------------------------------------------
(* Specification of the PandocMarkdown object: load a text, dump, reload *)

InitDoc ==
    /\ BuildIdle
    /\ d_exc = "none"
    /\ d_prev = NoDoc
    /\ \/ /\ d_stage = "text"
          /\ d_text \in InputTexts
          /\ d_pmd = NewPandocMarkdown
       \/ /\ d_stage = "made"
          /\ d_text = <<>>
          /\ \E m \in Metas, b \in Bodies :
                d_pmd = [initialized |-> TRUE, frontmatter |-> m, content |-> b]

\* pmd = PandocMarkdown.create_from_file(file)
Load ==
    /\ d_stage \in {"text", "dumped"}
    /\ LET r == load_file(NewPandocMarkdown, d_text)
       IN  /\ d_pmd' = r.pmd
           /\ d_exc' = r.exc
    /\ d_stage' = IF d_stage = "text" THEN "loaded" ELSE "reloaded"
    /\ UNCHANGED <<d_text, d_prev, b_vars>>

\* file.write(pmd.dumps())
Dump ==
    /\ d_stage \in {"made", "loaded"}
    /\ d_exc = "none"
    /\ dumps(d_pmd).exc = "none"
    /\ d_text' = dumps(d_pmd).text
    /\ d_prev' = [frontmatter |-> d_pmd.frontmatter, content |-> d_pmd.content]
    /\ d_stage' = "dumped"
    /\ UNCHANGED <<d_pmd, d_exc, b_vars>>

NextDoc == Load \/ Dump

SpecDoc == InitDoc /\ [][NextDoc]_vars

----------------------------------------------------------------------------
(* Claims about PandocMarkdown, checked under SpecDoc *)

\* positions at which the marker occurs in a text
Occurrences(text) == {i \in 1..(Len(text) - Len(delim) + 1) :
                        \A j \in 1..Len(delim) : text[i + j - 1] = delim[j]}
OneMarker(text) == Cardinality(Occurrences(text)) = 1
BeforeMarker(text) == SubSeq(text, 1, Min(Occurrences(text)) - 1)
AllWhitespace(s) == \A i \in 1..Len(s) : s[i] \in WS

\* s with its leading whitespace removed, stated without lstrip
IsLeftTrimOf(t, s) ==
    \E k \in 0..Len(s) :
        /\ \A i \in 1..k : s[i] \in WS
        /\ k = Len(s) \/ s[k + 1] \notin WS
        /\ t = SubSeq(s, k + 1, Len(s))

Reparsed == d_stage = "reloaded" /\ d_prev.frontmatter.kind = "map"

\* C1 (as claimed): parsing the text dumps() made of a document with a metadata
\* mapping succeeds and yields the same metadata and exactly the same body.
C1_RoundTripExact ==
    Reparsed =>
        /\ d_exc = "none"
        /\ d_pmd.frontmatter = d_prev.frontmatter
        /\ d_pmd.content = d_prev.content

\* C1 (amended): when the encoded metadata holds no marker, parsing the text
\* dumps() made succeeds and yields the same metadata, and as body a newline
\* followed by the document's body without its leading whitespace.
C1_RoundTripUpToLeadingWhitespace ==
    (Reparsed /\ Occurrences(yaml_dump(d_prev.frontmatter)) = {}) =>
        /\ d_exc = "none"
        /\ d_pmd.frontmatter = d_prev.frontmatter
        /\ Len(d_pmd.content) >= 1
        /\ Head(d_pmd.content) = "\n"
        /\ IsLeftTrimOf(Tail(d_pmd.content), d_prev.content)

\* a reparsed document whose body began with whitespace and held the marker
C1_Witness ==
    /\ Reparsed
    /\ d_prev.frontmatter.items # <<>>
    /\ Occurrences(yaml_dump(d_prev.frontmatter)) = {}
    /\ d_prev.content # <<>>
    /\ Head(d_prev.content) \in WS
    /\ Occurrences(d_prev.content) # {}
    /\ d_exc = "none"

\* C2 (as claimed): a text with exactly one marker, wherever it is, fails to
\* load with the missing-sections error.
C2_OneMarkerAlwaysMissingSections ==
    (d_stage = "loaded" /\ OneMarker(d_text)) => d_exc = ErrMissingSections

\* C2 (amended): a text with exactly one marker never loads; it fails with the
\* missing-sections error when only whitespace precedes the marker, and with
\* the no-front-matter error otherwise.
C2_OneMarkerFails ==
    (d_stage = "loaded" /\ OneMarker(d_text)) =>
        d_exc = IF AllWhitespace(BeforeMarker(d_text))
                THEN ErrMissingSections ELSE ErrNoFrontMatter

\* a loaded text whose only marker follows leading whitespace
C2_Witness ==
    /\ d_stage = "loaded"
    /\ OneMarker(d_text)
    /\ BeforeMarker(d_text) # <<>>
    /\ AllWhitespace(BeforeMarker(d_text))
    /\ d_exc = ErrMissingSections

----------------------------------------------------------------------------
(* Claims about the build, checked under Spec *)

\* the entries of a directory add_index_page takes as siblings of a document
Siblings(fs, md_path) == {i \in 1..Len(fs) : startswith(fs[i].name, stem(md_path))}

FilenameOf(child) == get(child, "__filename__")
OwnItems(child) == SelectSeq(child.items, LAMBDA it : it.k # "__filename__")
Metadata(text) == safe_load(split(text, delim)[2]).fm

\* C3: when add_index_page reaches the rendering, 'children' holds one record
\* for every entry of the directory whose name starts with the document's
\* stem and no other, in the directory's enumeration order, each the entry's
\* parsed metadata plus '__filename__' bound to its path.
C3_ChildrenAreTheSiblings ==
    [][ (calls' # calls /\ last'.idx.rendered) =>
          LET kids == last'.idx.children
              sibs == Siblings(content, last'.md_path)
              pos(j) == CHOOSE i \in 1..Len(content) :
                            FilenameOf(kids[j]) = YStr(content_path(content[i].name))
          IN  /\ Len(kids) = Cardinality(sibs)
              /\ \A i \in sibs :
                    Cardinality({j \in 1..Len(kids) :
                        FilenameOf(kids[j]) = YStr(content_path(content[i].name))}) = 1
              /\ \A j \in 1..Len(kids) :
                    /\ has_key(kids[j], "__filename__")
                    /\ pos(j) \in sibs
                    /\ OwnItems(kids[j]) = Metadata(content[pos(j)].text).items
              /\ \A j \in 1..Len(kids) : \A h \in 1..Len(kids) : j < h => pos(j) < pos(h)
      ]_vars

\* an index rendered from three siblings, the document itself and a generated
\* index file among them
C3_Witness ==
    /\ last.idx.rendered
    /\ Len(last.idx.children) = 3
    /\ \E j \in 1..3 : FilenameOf(last.idx.children[j]) = YStr(content_path(last.md_path))
    /\ \E j \in 1..3 : FilenameOf(last.idx.children[j]) = YStr(content_path(last.idx.path_new))

\* C4 (as claimed): once add_index_page has written the generated index,
\* gen_page runs the converter on the generated file, writing to the generated
\* index's logical path under the public root.
C4_ConverterReadsGeneratedIndex ==
    (last.indexed /\ last.idx.exc = "none") =>
        /\ last.ran_pandoc
        /\ last.cmd.input = content_path(last.idx.path_new)
        /\ last.cmd.o = public_path(get_plain_path(last.idx.path_new) \o <<".", "html">>)

\* C5 (as claimed): with mustache_rerender on, a page that got as far as the
\* converter command is re-rendered with the document's metadata mapping as
\* the top-level context.
C5_RerenderWithMetadataAsContext ==
    (CFG.mustache_rerender /\ last.cmd_called) =>
        /\ last.rerendered
        /\ last.data.top = last.frontmatter

\* C6 (as claimed): gen_cmd returns normally, its output path is
\* <public>/<q>.html with q the override or else the plain path, '-o' is that
\* path, the input is <content>/<p>.md, and gen_page reaches the converter.
C6_GenCmdReturnsTheOutputPath ==
    last.cmd_called =>
        /\ last.cmd.exc = "none"
        /\ last.cmd.out_path =
              public_path((IF last.plain_path_out.some THEN last.plain_path_out.path
                           ELSE last.plain_path) \o <<".", "html">>)
        /\ last.cmd.o = last.cmd.out_path
        /\ last.cmd.input = content_path(last.plain_path \o MdSuffix)
        /\ last.ran_pandoc

ParseErrors == {ErrNoFrontMatter, ErrMissingSections}
ParseFails(e) == e.kind = "file" /\ load_file(NewPandocMarkdown, e.text).exc \in ParseErrors

\* C7: when add_index_page reads the siblings and one of them fails to parse,
\* the build fails with the error of a sibling, nothing is rendered and the
\* content directory is left as it was.
C7_FailedSiblingWritesNothing ==
    [][ (/\ calls' # calls
         /\ last'.idx.scanned
         /\ \E i \in Siblings(content, last'.md_path) : ParseFails(content[i])) =>
          /\ content' = content
          /\ ~last'.idx.rendered
          /\ pc' = "failed"
          /\ \E i \in Siblings(content, last'.md_path) :
                /\ last'.idx.bad = content[i].name
                /\ error' = IF content[i].kind = "dir" THEN "IsADirectoryError"
                            ELSE IF load_file(NewPandocMarkdown, content[i].text).exc # "none"
                            THEN load_file(NewPandocMarkdown, content[i].text).exc
                            ELSE "TypeError"
      ]_vars

\* an index generation that failed on a sibling's parse error after other
\* siblings had been read, with no file at the new path
C7_Witness ==
    /\ pc = "failed"
    /\ last.idx.scanned
    /\ error \in ParseErrors
    /\ last.idx.children # <<>>
    /\ last.idx.path_new \notin names_of(content)

\* an index generation that failed on a sibling's parse error, with a file
\* already at the new path
C7_WitnessExisting ==
    /\ pc = "failed"
    /\ last.idx.scanned
    /\ error \in ParseErrors
    /\ last.idx.path_new \in names_of(content)

\* C8: a gen_page call is made only while the build runs, on the path the
\* loop is at; a call that raises ends the build with that exception, leaving
\* the loop where it is; a converter failure carries the converter's stderr;
\* and in a failed build nothing more is done.
C8_FailFast ==
    [][ /\ (calls' # calls) =>
              /\ pc = "running"
              /\ last'.md_path = content_files[next]
              /\ (last'.exc # "none") =>
                    /\ pc' = "failed"
                    /\ error' = last'.exc
                    /\ next' = next
                    /\ done_docs' = done_docs
              /\ (last'.exc = "RuntimeError") =>
                    /\ last'.ran_pandoc
                    /\ last'.exc_text \in {r.stderr : r \in {x \in ConverterRuns : x.rc # 0}}
        /\ (pc = "failed") =>
              /\ calls' = calls
              /\ content' = content
              /\ {f \in public' : f.kind = "file"} = {f \in public : f.kind = "file"}
      ]_vars

\* a build ended by a parse error with paths of its list left
C8_Witness ==
    /\ pc = "failed"
    /\ error \in ParseErrors
    /\ last.exc = error
    /\ next < Len(content_files)

\* the exceptions that bad input raises; UnboundLocalError is not among them
InputErrors == {ErrNoFrontMatter, ErrMissingSections, "YAMLError", "FileNotFoundError",
                "IsADirectoryError", "TypeError", "AttributeError", "RuntimeError",
                "ChevronError"}

\* C9 (as claimed): a build that no input error ends has processed the files
\* of its list, each once, in the list's order, each to completion.
C9_EveryListedFileProcessed ==
    (pc \in {"done", "failed"} /\ error \notin InputErrors) => done_docs = content_files

\* the index documents there were before the first build, leaving out those
\* whose generated index was there too
IsIndexDoc(e) ==
    /\ e.kind = "file"
    /\ Len(e.name) > 2
    /\ SubSeq(e.name, Len(e.name) - 1, Len(e.name)) = MdSuffix
    /\ load_file(NewPandocMarkdown, e.text).exc = "none"
    /\ is_index(load_file(NewPandocMarkdown, e.text).pmd.frontmatter).flag

Originals ==
    {initial[i].name : i \in {j \in 1..Len(initial) :
        IsIndexDoc(initial[j]) /\ index_path(initial[j].name) \notin names_of(initial)}}

\* the generated index files of an original: its name with the suffix
\* appended once or more
RECURSIVE Chain(_, _)
Chain(name, j) == IF j = 0 THEN name ELSE index_path(Chain(name, j - 1))
GeneratedFor(name) == {n \in names_of(content) : \E j \in 1..(MaxBuilds + 1) : n = Chain(name, j)}

\* C10 (as claimed): when no input error has ended a build, the k-th build
\* leaves exactly k generated index files for each original index document.
C10_KGeneratedFilesAfterKBuilds ==
    (/\ pc \in {"done", "failed"}
     /\ CFG.make_index_files
     /\ \A k \in 1..Len(outcomes) : outcomes[k] \notin InputErrors) =>
        \A o \in Originals : Cardinality(GeneratedFor(o)) = Len(outcomes)

====
